---- MODULE Spec2Model ----
(***************************************************************************)
(* disable_code: a rule string (RUST_DISABLE_CODE_FILTER) is parsed into   *)
(* an expression tree, compiled into a Filter, and the Filter is applied   *)
(* by delete_item to prune the item tree of a crate in place.              *)
(*                                                                         *)
(* Byte strings and Strings are sequences of one-character strings.        *)
(***************************************************************************)
EXTENDS Integers, Sequences, FiniteSets, TLC

(***************************************************************************)
(* Bounds of the model.                                                    *)
(***************************************************************************)
\* most items below the root module in an input tree
MaxNodes == 4
\* most nodes (calls and quotes) of a generated rule expression
MaxExprSize == 3
\* most nodes of a directly constructed Filter value
MaxFilterSize == 3

(***************************************************************************)
(* Bytes.                                                                  *)
(***************************************************************************)
Lower ==
  {"a","b","c","d","e","f","g","h","i","j","k","l","m",
   "n","o","p","q","r","s","t","u","v","w","x","y","z"}

\* the separators of nom's sp: space, tab, carriage return, line feed
Blank == {" ", "\t", "\r", "\n"}

DQ == "\""

\* String::from_utf8_lossy on the bytes of a String: the bytes are valid
\* UTF-8 (env::var returns Err otherwise), so every byte is kept.
bytes_to_string(bytes) == [k \in 1..Len(bytes) |-> bytes[k]]

(***************************************************************************)
(* Expr and Call (filter.rs).                                              *)
(***************************************************************************)
Quote(str) == [tag |-> "Quote", s |-> str]
Call(nm, as) == [tag |-> "Call", name |-> nm, args |-> as]

(***************************************************************************)
(* nom results.                                                            *)
(***************************************************************************)
Done(rest, out) == [t |-> "Done", rest |-> rest, out |-> out]
Error == [t |-> "Error"]
Incomplete == [t |-> "Incomplete"]

\* eat_separator!(" \t\r\n"): the input after its leading separators
RECURSIVE sp(_)
sp(i) == IF i # <<>> /\ Head(i) \in Blank THEN sp(Tail(i)) ELSE i

\* wrap_sep!: the separator, the parser, the separator
wrap_sep(r) == IF r.t = "Done" THEN Done(sp(r.rest), r.out) ELSE r

\* char!(c)
char(c, i) ==
  IF i = <<>> THEN Incomplete
  ELSE IF Head(i) = c THEN Done(Tail(i), c)
  ELSE Error

\* ws!(char!(c))
ws_char(c, i) == wrap_sep(char(c, sp(i)))

\* take_until!("\""): the bytes before the first quote character
take_until(i) ==
  IF Len(i) < 1 THEN Incomplete
  ELSE IF \A k \in 1..Len(i) : i[k] # DQ THEN Error
  ELSE LET index == CHOOSE k \in 1..Len(i) :
                      i[k] = DQ /\ \A j \in 1..(k - 1) : i[j] # DQ
       IN Done(SubSeq(i, index, Len(i)), SubSeq(i, 1, index - 1))

\* the closing char!('"') of quote, after the bytes b of the string
quote_close(b, c) ==
  IF c.t # "Done" THEN c ELSE Done(c.rest, bytes_to_string(b))

\* the take_until!("\"") of quote and what follows it
quote_body(b) ==
  IF b.t # "Done" THEN b ELSE quote_close(b.out, char(DQ, b.rest))

\* the opening char!('"') of quote and what follows it
quote_open(a) ==
  IF a.t # "Done" THEN a ELSE quote_body(take_until(a.rest))

\* named!(quote): delimited!(char!('"'), take_until!("\""), char!('"'))
quote(i) == quote_open(char(DQ, i))

\* the length of the longest lowercase prefix
RECURSIVE lower_prefix(_)
lower_prefix(i) ==
  IF i # <<>> /\ Head(i) \in Lower THEN 1 + lower_prefix(Tail(i)) ELSE 0

\* the match of "^[a-z]+", given the length n of the lowercase prefix
name_found(i, n) ==
  IF n = 0 THEN Error
  ELSE Done(SubSeq(i, n + 1, Len(i)), bytes_to_string(SubSeq(i, 1, n)))

\* named!(name): re_bytes_find!("^[a-z]+")
name(i) == name_found(i, lower_prefix(i))

RECURSIVE call(_), expr(_), separated_list(_, _)

\* complete!: Incomplete becomes Error
complete(r) == IF r.t = "Incomplete" THEN Error ELSE r

\* the second alternative of expr: ws!(quote), giving Expr::Quote
expr_quote(q) ==
  IF q.t = "Done" THEN Done(q.rest, Quote(q.out)) ELSE Error

\* the first alternative of expr: ws!(call), giving Expr::Call
expr_call(i, c) ==
  IF c.t = "Done" THEN c ELSE expr_quote(complete(wrap_sep(quote(sp(i)))))

\* named!(expr): alt_complete!(ws!(call) -> Expr::Call | ws!(quote) -> Expr::Quote)
expr(i) == expr_call(i, complete(wrap_sep(call(sp(i)))))

\* separated_list!: the element e after the separator, which left rest
separated_list_elem(input, res, rest, e) ==
  IF e.t = "Error" THEN Done(input, res)
  ELSE IF e.t = "Incomplete" THEN Incomplete
  ELSE IF Len(e.rest) = Len(rest) THEN Done(input, res)
  ELSE separated_list(e.rest, Append(res, e.out))

\* separated_list!: the separator s
separated_list_sep(input, res, s) ==
  IF s.t = "Error" THEN Done(input, res)
  ELSE IF s.t = "Incomplete" THEN Incomplete
  ELSE IF Len(s.rest) = Len(input) THEN Done(input, res)
  ELSE separated_list_elem(input, res, s.rest, expr(s.rest))

\* separated_list!(ws!(char!(',')), expr) after its first element:
\* input is the input after the last element, res the elements so far
separated_list(input, res) ==
  separated_list_sep(input, res, ws_char(",", input))

\* separated_list!: the first element e
separated_list_head(input, e) ==
  IF e.t = "Error" THEN Done(input, <<>>)
  ELSE IF e.t = "Incomplete" THEN Incomplete
  ELSE IF Len(e.rest) = Len(input) THEN Error
  ELSE separated_list(e.rest, <<e.out>>)

\* separated_list!(ws!(char!(',')), expr)
separated_list_first(input) == separated_list_head(input, expr(input))

\* the closing ws!(char!(')')) of args, after the list
args_close(list, c) ==
  IF c.t # "Done" THEN c ELSE Done(c.rest, list)

\* the list of args and what follows it
args_list(b) ==
  IF b.t # "Done" THEN b ELSE args_close(b.out, ws_char(")", b.rest))

\* the opening ws!(char!('(')) of args and what follows it
args_open(a) ==
  IF a.t # "Done" THEN a ELSE args_list(separated_list_first(a.rest))

\* named!(args): delimited!(ws!(char!('(')), separated_list!(..), ws!(char!(')')))
args(i) == args_open(ws_char("(", i))

\* the args of call, after the name
call_args(nm, a) ==
  IF a.t # "Done" THEN a ELSE Done(a.rest, Call(nm, a.out))

\* the name of call and what follows it
call_name(n) ==
  IF n.t # "Done" THEN n ELSE call_args(n.out, args(n.rest))

\* named!(call): name >> args >> Call{name, args}
call(i) == call_name(name(i))

(***************************************************************************)
(* Items (syntax::ast::Item as far as the filters read it): id is the      *)
(* identity of the item, ident its name, attrs the names of its            *)
(* attributes, node the ItemKind and items the children of a Mod.          *)
(***************************************************************************)
Item(id, ident, attrs, node, items) ==
  [id |-> id, ident |-> ident, attrs |-> attrs, node |-> node, items |-> items]

\* attr::contains_name
contains_name(attrs, nm) == nm \in attrs

(***************************************************************************)
(* regex::Regex for the patterns of the model: lowercase literals, the     *)
(* anchors ^ and $, and "(" that opens a group which is never closed.      *)
(***************************************************************************)
\* Regex::new: Ok(re) or Err
Regex_new(pat) ==
  IF \A k \in 1..Len(pat) : pat[k] \in Lower \cup {"^", "$"}
  THEN [t |-> "Ok", re |-> pat]
  ELSE [t |-> "Err"]

\* the pattern from its k-th element on matches text at position pos
RECURSIVE match_at(_, _, _, _)
match_at(re, k, text, pos) ==
  IF k > Len(re) THEN TRUE
  ELSE IF re[k] = "^" THEN pos = 1 /\ match_at(re, k + 1, text, pos)
  ELSE IF re[k] = "$" THEN pos = Len(text) + 1 /\ match_at(re, k + 1, text, pos)
  ELSE /\ pos <= Len(text)
       /\ text[pos] = re[k]
       /\ match_at(re, k + 1, text, pos + 1)

\* Regex::is_match: a match anywhere in the text
is_match(re, text) == \E pos \in 1..(Len(text) + 1) : match_at(re, 1, text, pos)

(***************************************************************************)
(* Filters (filter.rs).                                                    *)
(***************************************************************************)
AllFilter(fs) == [tag |-> "AllFilter", fs |-> fs]
AnyFilter(fs) == [tag |-> "AnyFilter", fs |-> fs]
NotFilter(f) == [tag |-> "NotFilter", f |-> f]
AlwaysFilter == [tag |-> "AlwaysFilter"]
NeverFilter == [tag |-> "NeverFilter"]
RegexFilter(re) == [tag |-> "RegexFilter", re |-> re]
TestFilter == [tag |-> "TestFilter"]
BenchFilter == [tag |-> "BenchFilter"]
FnFilter == [tag |-> "FnFilter"]
RootModFilter == [tag |-> "RootModFilter"]

RegexFilter_apply(f, item) == is_match(f.re, item.ident)

TestFilter_apply(item) == contains_name(item.attrs, "test")

BenchFilter_apply(item) == contains_name(item.attrs, "bench")

FnFilter_apply(item) == item.node = "Fn"

\* RootModFilter::apply without the match on ItemKind::Mod
RootModFilter_apply_any_kind(item) == item.ident = <<>>

RootModFilter_apply(item) ==
  IF item.node = "Mod" THEN item.ident = <<>> ELSE FALSE

RECURSIVE apply(_, _), AllFilter_apply(_, _), AnyFilter_apply(_, _)

\* AllFilter::apply that returns from the first round of its loop
AllFilter_apply_first_only(fs, item) ==
  IF fs = <<>> THEN TRUE ELSE apply(Head(fs), item)

\* for f in self.0.iter() { if !f.apply(item) { return false; } } true
AllFilter_apply(fs, item) ==
  IF fs = <<>> THEN TRUE
  ELSE IF ~apply(Head(fs), item) THEN FALSE
  ELSE AllFilter_apply(Tail(fs), item)

\* for f in self.0.iter() { if f.apply(item) { return true; } } false
AnyFilter_apply(fs, item) ==
  IF fs = <<>> THEN FALSE
  ELSE IF apply(Head(fs), item) THEN TRUE
  ELSE AnyFilter_apply(Tail(fs), item)

NotFilter_apply(f, item) == ~apply(f, item)

\* Filter::apply, dispatched on the implementing type
apply(f, item) ==
  CASE f.tag = "AllFilter" -> AllFilter_apply(f.fs, item)
    [] f.tag = "AnyFilter" -> AnyFilter_apply(f.fs, item)
    [] f.tag = "NotFilter" -> NotFilter_apply(f.f, item)
    [] f.tag = "AlwaysFilter" -> TRUE
    [] f.tag = "NeverFilter" -> FALSE
    [] f.tag = "RegexFilter" -> RegexFilter_apply(f, item)
    [] f.tag = "TestFilter" -> TestFilter_apply(item)
    [] f.tag = "BenchFilter" -> BenchFilter_apply(item)
    [] f.tag = "FnFilter" -> FnFilter_apply(item)
    [] f.tag = "RootModFilter" -> RootModFilter_apply(item)

\* the convenience constructors
and(filters) == AllFilter(filters)
or(filters) == AnyFilter(filters)
not(filter) == NotFilter(filter)

(***************************************************************************)
(* The compiler: expr_to_filter and its helpers.  A result is Ok(filter)   *)
(* or Panic(msg, fn): the panic message and the function it names.         *)
(***************************************************************************)
Ok(f) == [t |-> "Ok", f |-> f]
Panic(msg, fn) == [t |-> "Panic", msg |-> msg, fn |-> fn]

N_test == <<"t","e","s","t">>
N_bench == <<"b","e","n","c","h">>
N_regex == <<"r","e","g","e","x">>
N_fn == <<"f","n">>
N_true == <<"t","r","u","e">>
N_false == <<"f","a","l","s","e">>
N_and == <<"a","n","d">>
N_or == <<"o","r">>
N_not == <<"n","o","t">>

mk_regex_filter(as) ==
  IF Len(as) # 1 THEN Panic("regex() takes 1 argument", N_regex)
  ELSE IF as[1].tag = "Quote"
       THEN LET r == Regex_new(as[1].s) IN
            IF r.t = "Ok" THEN Ok(RegexFilter(r.re))
            ELSE Panic("regex(): could not parse argument", N_regex)
       ELSE Panic("regex() only takes a string argument", N_regex)

\* mk_no_arg_filter without the check of args.len()
mk_no_arg_filter_unchecked(nm, as, filter) == Ok(filter)

mk_no_arg_filter(nm, as, filter) ==
  IF Len(as) # 0 THEN Panic("takes no arguments", nm)
  ELSE Ok(filter)

RECURSIVE expr_to_filter(_), args_to_filters(_, _)

\* for arg in args { v.push(expr_to_filter(arg)); } v, from the vector v on
args_to_filters(as, v) ==
  IF as = <<>> THEN [t |-> "Ok", v |-> v]
  ELSE LET r == expr_to_filter(Head(as)) IN
       IF r.t = "Panic" THEN r
       ELSE args_to_filters(Tail(as), Append(v, r.f))

mk_and_filter(as) ==
  IF Len(as) = 0 THEN Panic("and() takes 1 or more arguments", N_and)
  ELSE LET r == args_to_filters(as, <<>>) IN
       IF r.t = "Panic" THEN r ELSE Ok(and(r.v))

mk_or_filter(as) ==
  IF Len(as) = 0 THEN Panic("or() takes 1 or more arguments", N_or)
  ELSE LET r == args_to_filters(as, <<>>) IN
       IF r.t = "Panic" THEN r ELSE Ok(or(r.v))

mk_not_filter(as) ==
  IF Len(as) # 1 THEN Panic("not() takes 1 argument", N_not)
  ELSE LET r == expr_to_filter(as[1]) IN
       IF r.t = "Panic" THEN r ELSE Ok(not(r.f))

expr_to_filter(e) ==
  IF e.tag = "Quote" THEN Panic("unexpected string argument", <<>>)
  ELSE CASE e.name = N_test -> mk_no_arg_filter(N_test, e.args, TestFilter)
         [] e.name = N_bench -> mk_no_arg_filter(N_bench, e.args, BenchFilter)
         [] e.name = N_regex -> mk_regex_filter(e.args)
         [] e.name = N_fn -> mk_no_arg_filter(N_fn, e.args, FnFilter)
         [] e.name = N_true -> mk_no_arg_filter(N_true, e.args, AlwaysFilter)
         [] e.name = N_false -> mk_no_arg_filter(N_false, e.args, NeverFilter)
         [] e.name = N_and -> mk_and_filter(e.args)
         [] e.name = N_or -> mk_or_filter(e.args)
         [] e.name = N_not -> mk_not_filter(e.args)
         [] OTHER -> Panic("unrecognized function", e.name)

\* parse_filter from the result of call(filter.as_bytes()) on
parse_filter_result(r) ==
  CASE r.t = "Done" -> expr_to_filter(r.out)
    [] r.t = "Error" -> Panic("error parsing input", <<>>)
    [] r.t = "Incomplete" -> Panic("unparsed input", <<>>)

parse_filter(filter) == parse_filter_result(call(filter))

\* env::var(ENV_VAR_NAME): [set |-> TRUE, val |-> the string] or unset
EnvOk(val) == [set |-> TRUE, val |-> val]
EnvErr == [set |-> FALSE, val |-> <<>>]

\* env_to_filter that does not guard the root module
env_to_filter_unguarded(e) ==
  IF e.set
  THEN LET r == parse_filter(e.val) IN
       IF r.t = "Panic" THEN r ELSE Ok(and(<<r.f>>))
  ELSE Ok(NeverFilter)

\* env_to_filter that removes everything when the variable is unset
env_to_filter_unset_removes(e) ==
  IF e.set
  THEN LET r == parse_filter(e.val) IN
       IF r.t = "Panic" THEN r ELSE Ok(and(<<not(RootModFilter), r.f>>))
  ELSE Ok(AlwaysFilter)

env_to_filter(e) ==
  IF e.set
  THEN LET r == parse_filter(e.val) IN
       IF r.t = "Panic" THEN r ELSE Ok(and(<<not(RootModFilter), r.f>>))
  ELSE Ok(NeverFilter)

(***************************************************************************)
(* Inputs: item trees.  The root of a crate is its module, a Mod with the   *)
(* empty name; every other Mod was parsed with its identifier, so it has   *)
(* a name.  An impl block is an item with the empty name.                  *)
(***************************************************************************)
I_foo == <<"f","o","o">>
I_bar == <<"b","a","r">>
I_foobar == <<"f","o","o","b","a","r">>

\* what the filters read of an item below the root
ItemData ==
  { [ident |-> I_foo, attrs |-> {"test"}, node |-> "Fn"],
    [ident |-> I_bar, attrs |-> {"bench"}, node |-> "Fn"],
    [ident |-> I_foobar, attrs |-> {}, node |-> "Mod"],
    [ident |-> <<>>, attrs |-> {}, node |-> "Impl"] }

\* the sequences of items with n items in all, given in T[m + 1] those with
\* m < n items; ids are still unassigned
ForestsOf(n, T) ==
  UNION { { <<Item(0, d.ident, d.attrs, d.node, kids)>> \o rest :
              d \in {x \in ItemData : k > 1 => x.node = "Mod"},
              kids \in T[k],
              rest \in T[n - k + 1] } : k \in 1..n }

\* <<the sequences with 0 items, with 1 item, .., with n items>>
RECURSIVE Forests(_)
Forests(n) ==
  IF n = 0 THEN << {<<>>} >>
  ELSE LET T == Forests(n - 1) IN Append(T, ForestsOf(n, T))

RECURSIVE Size(_), SizeAll(_), Number(_, _), NumberAll(_, _)

\* the number of items of a tree, of a sequence of trees
Size(item) == 1 + SizeAll(item.items)
SizeAll(items) == IF items = <<>> THEN 0 ELSE Size(Head(items)) + SizeAll(Tail(items))

\* the tree with its items numbered in pre-order from id on
Number(item, id) == [item EXCEPT !.id = id, !.items = NumberAll(item.items, id + 1)]
NumberAll(items, id) ==
  IF items = <<>> THEN <<>>
  ELSE <<Number(Head(items), id)>> \o NumberAll(Tail(items), id + Size(Head(items)))

\* the crates: a root module over at most MaxNodes items
Crates ==
  { Number(Item(0, <<>>, {}, "Mod", kids), 1) :
      kids \in UNION { Forests(MaxNodes)[n + 1] : n \in 0..MaxNodes } }

\* the items of at most MaxNodes items that are no crate: the attribute was
\* put on a module or on another item
InnerItems ==
  { Number(f[1], 1) :
      f \in { g \in UNION { Forests(MaxNodes)[n + 1] : n \in 1..MaxNodes } : Len(g) = 1 } }

\* the Annotatable::Item values modify_ast is called with
Annotatables == Crates \cup InnerItems

\* the item is the root module of a crate
IsCrate(item) == item.node = "Mod" /\ item.ident = <<>>

(***************************************************************************)
(* The state.                                                              *)
(***************************************************************************)
VARIABLES
  env,          \* the environment variable RUST_DISABLE_CODE_FILTER
  annotatable,  \* the item handed to modify_ast
  pc,           \* where modify_ast is
  out,          \* the result of call() on the rule string, as parse_filter prints it
  filter,       \* the filter env_to_filter returned
  it,           \* modify_ast's local item
  stack,        \* the running delete_item calls on modules, innermost last
  ret,          \* what the last finished delete_item call returned
  err,          \* the panic that ended the pass
  returned,     \* the item modify_ast returned
  again         \* modify_ast runs on the item it returned before

vars == <<env, annotatable, pc, out, filter, it, stack, ret, err, returned, again>>

None == [t |-> "None"]

\* dummy_item(): an extern crate item with the empty name and id 0
dummy_item == Item(0, <<>>, {}, "ExternCrate", <<>>)

\* a delete_item call that reached the match on a Mod: the item it mutates,
\* the loop index i, to_delete, and offset and the position in to_delete of
\* the removal loop; orig remembers md.items as the removal loop found it
Frame(item) ==
  [it |-> item, i |-> 0, to_delete |-> <<>>, offset |-> 0, k |-> 1,
   pc |-> "scan", orig |-> <<>>]

Top == stack[Len(stack)]
SetTop(fr) == [stack EXCEPT ![Len(stack)] = fr]

\* Vec::remove(index) on a vector of length > index (0-based)
Remove(v, index) == SubSeq(v, 1, index) \o SubSeq(v, index + 2, Len(v))

\* modify_ast that builds the filter after the children of its item are gone
EnvToFilter_after_pruning ==
  /\ pc = "start"
  /\ out' = IF env.set THEN call(env.val) ELSE None
  /\ it' = [it EXCEPT !.items = <<>>]
  /\ IF env_to_filter(env).t = "Panic"
     THEN /\ pc' = "panic"
          /\ err' = env_to_filter(env)
          /\ filter' = None
     ELSE /\ pc' = "filter"
          /\ err' = None
          /\ filter' = env_to_filter(env)
  /\ UNCHANGED <<env, annotatable, stack, ret, returned, again>>

(***************************************************************************)
(* modify_ast, lines 33-36: the item is unwrapped and env_to_filter runs   *)
(* before delete_item is entered.                                          *)
(***************************************************************************)
EnvToFilter ==
  /\ pc = "start"
  /\ out' = IF env.set THEN call(env.val) ELSE None
  /\ LET r == env_to_filter(env) IN
       IF r.t = "Panic"
       THEN /\ pc' = "panic"
            /\ err' = r
            /\ filter' = None
       ELSE /\ pc' = "filter"
            /\ err' = None
            /\ filter' = r
  /\ UNCHANGED <<env, annotatable, it, stack, ret, returned, again>>

\* delete_item(filter, &mut it) on modify_ast's item, lines 46-50
DeleteItemRoot ==
  /\ pc = "filter"
  /\ IF apply(filter.f, it)
     THEN /\ ret' = TRUE
          /\ pc' = "returned"
          /\ stack' = <<>>
     ELSE IF it.node = "Mod"
     THEN /\ stack' = <<Frame(it)>>
          /\ pc' = "delete"
          /\ ret' = ret
     ELSE /\ ret' = FALSE
          /\ pc' = "returned"
          /\ stack' = <<>>
  /\ UNCHANGED <<env, annotatable, out, filter, it, err, returned, again>>

\* a round that pushes the position of the child counted from one
ChildDeleted_one_based ==
  /\ pc = "delete"
  /\ Top.pc = "scan"
  /\ Top.i < Len(Top.it.items)
  /\ apply(filter.f, Top.it.items[Top.i + 1])
  /\ stack' = SetTop([Top EXCEPT !.to_delete = Append(@, Top.i + 1), !.i = @ + 1])
  /\ ret' = TRUE
  /\ UNCHANGED <<env, annotatable, pc, out, filter, it, err, returned, again>>

\* a round that, having marked a child, passes over the next one
ChildDeleted_skips_next ==
  /\ pc = "delete"
  /\ Top.pc = "scan"
  /\ Top.i < Len(Top.it.items)
  /\ apply(filter.f, Top.it.items[Top.i + 1])
  /\ stack' = SetTop([Top EXCEPT !.to_delete = Append(@, Top.i),
                                 !.i = IF @ + 2 <= Len(Top.it.items) THEN @ + 2 ELSE @ + 1])
  /\ ret' = TRUE
  /\ UNCHANGED <<env, annotatable, pc, out, filter, it, err, returned, again>>

\* one round of the loop of lines 53-73 whose call returns at line 47:
\* the child is swapped out, the filter applies, the child is swapped back
\* and its index is pushed
ChildDeleted ==
  /\ pc = "delete"
  /\ Top.pc = "scan"
  /\ Top.i < Len(Top.it.items)
  /\ apply(filter.f, Top.it.items[Top.i + 1])
  /\ stack' = SetTop([Top EXCEPT !.to_delete = Append(@, Top.i), !.i = @ + 1])
  /\ ret' = TRUE
  /\ UNCHANGED <<env, annotatable, pc, out, filter, it, err, returned, again>>

\* one round whose call returns at line 83: the child is no module
ChildKept ==
  /\ pc = "delete"
  /\ Top.pc = "scan"
  /\ Top.i < Len(Top.it.items)
  /\ ~apply(filter.f, Top.it.items[Top.i + 1])
  /\ Top.it.items[Top.i + 1].node # "Mod"
  /\ stack' = SetTop([Top EXCEPT !.i = @ + 1])
  /\ ret' = FALSE
  /\ UNCHANGED <<env, annotatable, pc, out, filter, it, err, returned, again>>

\* one round up to the call of line 67 on a module the filter keeps: the
\* dummy takes the child's place and the call works on the child
ChildEntered ==
  /\ pc = "delete"
  /\ Top.pc = "scan"
  /\ Top.i < Len(Top.it.items)
  /\ ~apply(filter.f, Top.it.items[Top.i + 1])
  /\ Top.it.items[Top.i + 1].node = "Mod"
  /\ stack' = Append(SetTop([Top EXCEPT !.it.items[Top.i + 1] = dummy_item]),
                     Frame(Top.it.items[Top.i + 1]))
  /\ UNCHANGED <<env, annotatable, pc, out, filter, it, ret, err, returned, again>>

\* line 75: the scan is over, the removal loop starts
ScanDone ==
  /\ pc = "delete"
  /\ Top.pc = "scan"
  /\ Top.i = Len(Top.it.items)
  /\ stack' = SetTop([Top EXCEPT !.pc = "remove", !.offset = 0, !.k = 1,
                                 !.orig = Top.it.items])
  /\ UNCHANGED <<env, annotatable, pc, out, filter, it, ret, err, returned, again>>

\* the index without the offset
RemoveIndex_stale(i, offset) == i

\* the index md.items.remove is called with at line 77 for the entry i of
\* to_delete: i - offset in usize, which panics below zero
RemoveIndex(i, offset) == i - offset

\* lines 76-79, one round: md.items.remove(i - offset); offset += 1
RemoveStep ==
  /\ pc = "delete"
  /\ Top.pc = "remove"
  /\ Top.k <= Len(Top.to_delete)
  /\ LET index == RemoveIndex(Top.to_delete[Top.k], Top.offset) IN
       IF index < 0
       THEN /\ pc' = "panic"
            /\ err' = Panic("attempt to subtract with overflow", <<>>)
            /\ stack' = stack
       ELSE IF index >= Len(Top.it.items)
       THEN /\ pc' = "panic"
            /\ err' = Panic("removal index out of bounds", <<>>)
            /\ stack' = stack
       ELSE /\ stack' = SetTop([Top EXCEPT !.it.items = Remove(@, index),
                                           !.offset = @ + 1,
                                           !.k = @ + 1])
            /\ UNCHANGED <<pc, err>>
  /\ UNCHANGED <<env, annotatable, out, filter, it, ret, returned, again>>

\* line 81: the call on a module returns false; its caller swaps the item
\* back (line 68) and goes on, or it is modify_ast, whose item it was
ReturnFalse ==
  /\ pc = "delete"
  /\ Top.pc = "remove"
  /\ Top.k > Len(Top.to_delete)
  /\ ret' = FALSE
  /\ IF Len(stack) = 1
     THEN /\ it' = Top.it
          /\ stack' = <<>>
          /\ pc' = "returned"
     ELSE LET caller == stack[Len(stack) - 1] IN
          /\ stack' = [SubSeq(stack, 1, Len(stack) - 1) EXCEPT
                         ![Len(stack) - 1] =
                            [caller EXCEPT !.it.items[caller.i + 1] = Top.it,
                                           !.i = @ + 1]]
          /\ UNCHANGED <<it, pc>>
  /\ UNCHANGED <<env, annotatable, out, filter, err, returned, again>>

\* lines 36-37: assert!(!delete_item(..)); Annotatable::Item(P(it))
ModifyAstReturn ==
  /\ pc = "returned"
  /\ IF ret
     THEN /\ pc' = "panic"
          /\ err' = Panic("assertion failed", <<>>)
          /\ returned' = returned
     ELSE /\ pc' = "done"
          /\ returned' = it
          /\ err' = err
  /\ UNCHANGED <<env, annotatable, out, filter, it, stack, ret, again>>

\* the pass runs once more, on the item it returned, under the same environment
Reinvoke ==
  /\ pc = "done"
  /\ ~again
  /\ again' = TRUE
  /\ annotatable' = returned
  /\ it' = returned
  /\ pc' = "start"
  /\ out' = None
  /\ filter' = None
  /\ ret' = FALSE
  /\ UNCHANGED <<env, stack, err, returned>>

(***************************************************************************)
(* Rule strings.                                                           *)
(***************************************************************************)
RECURSIVE Unparse(_, _), UnparseArgs(_, _)

\* the text of an expression; pad puts blanks around the punctuation
Unparse(e, pad) ==
  LET b == IF pad THEN <<" ">> ELSE <<>> IN
  IF e.tag = "Quote" THEN <<DQ>> \o e.s \o <<DQ>>
  ELSE e.name \o b \o <<"(">> \o b \o UnparseArgs(e.args, pad) \o b \o <<")">>
UnparseArgs(as, pad) ==
  LET b == IF pad THEN <<" ">> ELSE <<>> IN
  IF as = <<>> THEN <<>>
  ELSE IF Len(as) = 1 THEN Unparse(as[1], pad)
  ELSE Unparse(as[1], pad) \o b \o <<",">> \o b \o UnparseArgs(Tail(as), pad)

P_foo == <<"^","f","o","o">>
P_open == <<"(">>
N_zzz == <<"z","z","z">>

\* the rules of the passes: one per function, and one per kind of error
PassRules ==
  { Call(N_true, <<>>),
    Call(N_test, <<>>),
    Call(N_not, <<Call(N_fn, <<>>)>>),
    Call(N_regex, <<Quote(P_foo)>>),
    Call(N_or, <<Call(N_test, <<>>), Call(N_bench, <<>>)>>),
    Call(N_and, <<Call(N_false, <<>>), Call(N_true, <<>>)>>),
    Call(N_zzz, <<>>),
    Call(N_test, <<Call(N_fn, <<>>)>>),
    Call(N_regex, <<Call(N_fn, <<>>)>>),
    Call(N_regex, <<Quote(P_open)>>) }

\* a rule string cut short of its last byte
Truncated(text) == SubSeq(text, 1, Len(text) - 1)

PassEnvs ==
  {EnvErr} \cup { EnvOk(Unparse(e, FALSE)) : e \in PassRules }
           \cup { EnvOk(Truncated(Unparse(Call(N_test, <<>>), FALSE))) }

(***************************************************************************)
(* The pass: modify_ast on a crate, and once more on what it returned.     *)
(***************************************************************************)
Init ==
  /\ env \in PassEnvs
  /\ annotatable \in Annotatables
  /\ it = annotatable
  /\ pc = "start"
  /\ out = None
  /\ filter = None
  /\ stack = <<>>
  /\ ret = FALSE
  /\ err = None
  /\ returned = dummy_item
  /\ again = FALSE

Next ==
  \/ EnvToFilter
  \/ DeleteItemRoot
  \/ ChildDeleted
  \/ ChildKept
  \/ ChildEntered
  \/ ScanDone
  \/ RemoveStep
  \/ ReturnFalse
  \/ ModifyAstReturn
  \/ Reinvoke

Spec == Init /\ [][Next]_vars

(***************************************************************************)
(* Rule strings for the parser and the compiler: the texts of the          *)
(* expressions of at most MaxExprSize nodes over DeepNames and two         *)
(* strings, and of every function over a few argument lists, written       *)
(* tight or padded, followed by more input, or cut short.                  *)
(***************************************************************************)
Names ==
  {N_test, N_bench, N_regex, N_fn, N_true, N_false, N_and, N_or, N_not, N_zzz}

DeepNames == {N_test, N_regex, N_and, N_not, N_zzz}

Quotes == {Quote(P_foo), Quote(P_open)}

\* the sequences of n nodes in all over the values in S[k] of k nodes,
\* given in L[m + 1] the sequences of m < n nodes
ListsOf(n, S, L) ==
  UNION { { <<x>> \o rest : x \in S[k], rest \in L[n - k + 1] } : k \in 1..n }

\* the expressions of n nodes, given the argument lists of n - 1 nodes
ExprsOf(n, lists) ==
  (IF n = 1 THEN Quotes ELSE {}) \cup { Call(nm, as) : nm \in DeepNames, as \in lists }

\* [S |-> <<expressions of 1, .., n nodes>>, L |-> <<lists of 0, .., n - 1 nodes>>]
RECURSIVE Exprs(_)
ExprsNext(n, L, T) == [S |-> Append(T.S, ExprsOf(n, L[n])), L |-> L]
ExprsLists(n, T) == ExprsNext(n, Append(T.L, ListsOf(n - 1, T.S, T.L)), T)
Exprs(n) ==
  IF n = 1 THEN [S |-> << ExprsOf(1, {<<>>}) >>, L |-> << {<<>>} >>]
  ELSE ExprsLists(n, Exprs(n - 1))

\* the argument lists every function is called with
ShallowArgs ==
  { <<>>, <<Call(N_fn, <<>>)>>, <<Quote(P_foo)>>,
    <<Call(N_fn, <<>>), Call(N_test, <<>>)>>,
    <<Call(N_fn, <<>>), Quote(P_foo)>> }

RuleCalls ==
  { e \in UNION { Exprs(MaxExprSize).S[n] : n \in 1..MaxExprSize } : e.tag = "Call" }
    \cup { Call(nm, as) : nm \in Names, as \in ShallowArgs }

\* what may follow a rule in its string
Trailers == { <<"x">>, <<"f","n","(",")">> }

RuleTexts ==
  { Unparse(e, pad) : e \in RuleCalls, pad \in BOOLEAN }
    \cup { Unparse(e, FALSE) \o tr : e \in RuleCalls, tr \in Trailers }
    \cup { Truncated(Unparse(e, FALSE)) : e \in RuleCalls }

\* a crate of one function
SmallCrate ==
  Number(Item(0, <<>>, {}, "Mod", <<Item(0, I_foo, {"test"}, "Fn", <<>>)>>), 1)

InitParse ==
  /\ env \in { EnvOk(text) : text \in RuleTexts }
  /\ annotatable = SmallCrate
  /\ it = annotatable
  /\ pc = "start"
  /\ out = None
  /\ filter = None
  /\ stack = <<>>
  /\ ret = FALSE
  /\ err = None
  /\ returned = dummy_item
  /\ again = FALSE

NextParse == EnvToFilter

SpecParse == InitParse /\ [][NextParse]_vars

(***************************************************************************)
(* Filters built directly, of at most MaxFilterSize nodes, applied to one  *)
(* item.                                                                   *)
(***************************************************************************)
Leaves ==
  {AlwaysFilter, NeverFilter, RegexFilter(P_foo), TestFilter, BenchFilter,
   FnFilter, RootModFilter}

\* the filters of n nodes, given those of n - 1 nodes and the lists of n - 1 nodes
FiltersOf(n, smaller, lists) ==
  (IF n = 1 THEN Leaves ELSE { NotFilter(f) : f \in smaller })
    \cup { AllFilter(fs) : fs \in lists } \cup { AnyFilter(fs) : fs \in lists }

\* [S |-> <<filters of 1, .., n nodes>>, L |-> <<lists of 0, .., n - 1 nodes>>]
RECURSIVE Filters(_)
FiltersNext(n, L, T) == [S |-> Append(T.S, FiltersOf(n, T.S[n - 1], L[n])), L |-> L]
FiltersLists(n, T) == FiltersNext(n, Append(T.L, ListsOf(n - 1, T.S, T.L)), T)
Filters(n) ==
  IF n = 1 THEN [S |-> << FiltersOf(1, {}, {<<>>}) >>, L |-> << {<<>>} >>]
  ELSE FiltersLists(n, Filters(n - 1))

\* the items a filter is applied to: a root module, and one of each kind
Items ==
  { Item(1, <<>>, {}, "Mod", <<>>) }
    \cup { Item(2, d.ident, d.attrs, d.node, <<>>) : d \in ItemData }

InitApply ==
  /\ filter \in { Ok(f) : f \in UNION { Filters(MaxFilterSize).S[n] : n \in 1..MaxFilterSize } }
  /\ it \in Items
  /\ annotatable = it
  /\ env = EnvErr
  /\ pc = "apply"
  /\ out = None
  /\ stack = <<>>
  /\ ret = FALSE
  /\ err = None
  /\ returned = dummy_item
  /\ again = FALSE

\* filter.apply(item)
Apply ==
  /\ pc = "apply"
  /\ ret' = apply(filter.f, it)
  /\ pc' = "applied"
  /\ UNCHANGED <<env, annotatable, out, filter, it, stack, err, returned, again>>

NextApply == Apply

SpecApply == InitApply /\ [][NextApply]_vars

(***************************************************************************)
(* Reading trees.                                                          *)
(***************************************************************************)
RECURSIVE Ids(_), Paths(_), NodeAt(_, _)

\* the ids of the items of a tree
Ids(item) == {item.id} \cup UNION { Ids(item.items[k]) : k \in 1..Len(item.items) }

\* the places of a tree: the sequences of child positions from the root down
Paths(item) ==
  {<<>>} \cup UNION { { <<k>> \o q : q \in Paths(item.items[k]) } :
                        k \in 1..Len(item.items) }

\* the item at a place
NodeAt(item, path) ==
  IF path = <<>> THEN item ELSE NodeAt(item.items[Head(path)], Tail(path))

\* the predicate compiled from the rule string: the second filter of the
\* and() that env_to_filter builds
UserPredicate == filter.f.fs[2]

\* the places of the items below the root on which p is false, as it is on
\* every item between them and the root
KeptPlaces(tree, p) ==
  { q \in Paths(tree) :
      \A n \in 1..Len(q) : ~apply(p, NodeAt(tree, SubSeq(q, 1, n))) }

\* the elements of a vector whose 0-based positions from c on are not marked
RECURSIVE Unmarked(_, _, _)
Unmarked(v, marked, c) ==
  IF c >= Len(v) THEN <<>>
  ELSE (IF c \in marked THEN <<>> ELSE <<v[c + 1]>>) \o Unmarked(v, marked, c + 1)

Range(v) == { v[k] : k \in 1..Len(v) }

Increasing(v) == \A a, b \in 1..Len(v) : a < b => v[a] < v[b]

Max(S) == CHOOSE x \in S : \A y \in S : y <= x

(***************************************************************************)
(* C1: whatever the rule says of the root, delete_item returns false on    *)
(* the root module, the assertion of modify_ast holds, and the item        *)
(* modify_ast returns is the root module it was given.                     *)
(***************************************************************************)
C1_RootNeverRemoved ==
  IsCrate(annotatable) =>
    /\ pc = "returned" => ~ret
    /\ err.t = "Panic" => err.msg # "assertion failed"
    /\ pc = "done" =>
         /\ returned.id = annotatable.id
         /\ returned.node = "Mod"
         /\ returned.ident = <<>>

\* a pass is over whose rule is true of the root and which emptied the root
C1_Witness ==
  /\ pc = "done"
  /\ IsCrate(annotatable)
  /\ env.set
  /\ apply(UserPredicate, annotatable)
  /\ annotatable.items # <<>>
  /\ returned.items = <<>>

(***************************************************************************)
(* C2: after a pass with the compiled rule p the items of the tree are the *)
(* root and the items below it on which p is false and is false on every   *)
(* item between them and the root, each of them once.                      *)
(***************************************************************************)
C2_ExactlyTheKeptRemain ==
  (pc = "done" /\ env.set) =>
     /\ Ids(returned) = { NodeAt(annotatable, q).id : q \in KeptPlaces(annotatable, UserPredicate) }
     /\ Cardinality(Ids(returned)) = Size(returned)

\* a pass is over that kept an item and removed a module, and with it an
\* item of the module on which the rule is false
C2_Witness ==
  /\ pc = "done"
  /\ env.set
  /\ returned.items # <<>>
  /\ \E q \in Paths(annotatable) :
       /\ Len(q) = 2
       /\ ~apply(UserPredicate, NodeAt(annotatable, q))
       /\ apply(UserPredicate, NodeAt(annotatable, <<q[1]>>))
       /\ NodeAt(annotatable, q).id \notin Ids(returned)

(***************************************************************************)
(* C3: when the removal loop of delete_item is over, the children of the   *)
(* module are the children the loop found, without the marked ones, in     *)
(* their order.                                                            *)
(***************************************************************************)
C3_RemovalKeepsOrder ==
  (stack # <<>> /\ Top.pc = "remove" /\ Top.k > Len(Top.to_delete)) =>
     Top.it.items = Unmarked(Top.orig, Range(Top.to_delete), 0)

\* the loop is over on four children of which the second and the fourth
\* were marked
C3_Witness ==
  /\ stack # <<>>
  /\ Top.pc = "remove"
  /\ Top.k > Len(Top.to_delete)
  /\ Len(Top.orig) = 4
  /\ Top.to_delete = <<1, 3>>
  /\ Top.it.items = <<Top.orig[1], Top.orig[3]>>

(***************************************************************************)
(* C4: a pass that ends in a configuration error has not touched the       *)
(* tree: no delete_item call has started, modify_ast's item is the item    *)
(* it was given and nothing was returned; and delete_item only runs with   *)
(* the filter built.                                                       *)
(***************************************************************************)
ConfigErrors ==
  { "error parsing input", "unparsed input", "unexpected string argument",
    "unrecognized function", "takes no arguments", "regex() takes 1 argument",
    "regex(): could not parse argument", "regex() only takes a string argument",
    "and() takes 1 or more arguments", "or() takes 1 or more arguments",
    "not() takes 1 argument" }

C4_ErrorsBeforeMutation ==
  /\ (err.t = "Panic" /\ err.msg \in ConfigErrors) =>
       /\ pc = "panic"
       /\ it = annotatable
       /\ stack = <<>>
       /\ returned = dummy_item
       /\ filter = None
  /\ pc \in {"delete", "returned", "done"} => filter.t = "Ok"

\* a pass over a tree with items ended in the error of an invalid regex
C4_Witness ==
  /\ pc = "panic"
  /\ err.msg = "regex(): could not parse argument"
  /\ annotatable.items # <<>>
  /\ it = annotatable

(***************************************************************************)
(* C5: a rule string that is a call followed by more input is rejected     *)
(* with a grammar error.                                                   *)
(***************************************************************************)
C5_TrailingInputRejected ==
  (pc # "start" /\ env.set /\ out.t = "Done" /\ out.rest # <<>>) =>
     /\ pc = "panic"
     /\ err.msg \in {"error parsing input", "unparsed input"}

(***************************************************************************)
(* C6: a second pass under the same rule removes nothing and returns the   *)
(* tree as the first pass left it.                                         *)
(***************************************************************************)
C6_SecondPassChangesNothing ==
  again =>
    /\ \A n \in 1..Len(stack) : stack[n].to_delete = <<>>
    /\ pc = "done" => returned = annotatable

\* the second pass is over on a tree with a module from which the first
\* pass removed items
C6_Witness ==
  /\ again
  /\ pc = "done"
  /\ env.set
  /\ \E k \in 1..Len(annotatable.items) : annotatable.items[k].node = "Mod"
  /\ Cardinality(Ids(annotatable)) < Max(Ids(annotatable))

(***************************************************************************)
(* C7: without the environment variable the filter is false on every item  *)
(* and the pass returns the tree it was given.                             *)
(***************************************************************************)
C7_UnsetKeepsEverything ==
  ~env.set =>
    /\ filter.t = "Ok" =>
         \A q \in Paths(annotatable) : ~apply(filter.f, NodeAt(annotatable, q))
    /\ pc = "done" => returned = annotatable
    /\ pc # "panic"

\* a pass without the variable is over on a tree with an item in a module
C7_Witness ==
  /\ ~env.set
  /\ pc = "done"
  /\ \E q \in Paths(annotatable) : Len(q) = 2

(***************************************************************************)
(* C8: not is the negation of its filter, and is true iff every one of     *)
(* its filters is, or is true iff one of its filters is.                   *)
(***************************************************************************)
C8_Combinators ==
  pc = "applied" =>
    /\ filter.f.tag = "NotFilter" => (ret <=> ~apply(filter.f.f, it))
    /\ filter.f.tag = "AllFilter" =>
         (ret <=> \A k \in 1..Len(filter.f.fs) : apply(filter.f.fs[k], it))
    /\ filter.f.tag = "AnyFilter" =>
         (ret <=> \E k \in 1..Len(filter.f.fs) : apply(filter.f.fs[k], it))

\* an and of two filters was applied, of which only the second is false
C8_Witness ==
  /\ pc = "applied"
  /\ filter.f.tag = "AllFilter"
  /\ Len(filter.f.fs) = 2
  /\ apply(filter.f.fs[1], it)
  /\ ~apply(filter.f.fs[2], it)
  /\ ~ret

(***************************************************************************)
(* C9: a rule compiles only if every call of it is one of the nine         *)
(* functions with the arguments of the table.                              *)
(***************************************************************************)
RECURSIVE WellFormed(_)
WellFormed(e) ==
  /\ e.tag = "Call"
  /\ \/ /\ e.name \in {N_true, N_false, N_test, N_bench, N_fn}
        /\ Len(e.args) = 0
     \/ /\ e.name = N_regex
        /\ Len(e.args) = 1
        /\ e.args[1].tag = "Quote"
     \/ /\ e.name = N_not
        /\ Len(e.args) = 1
        /\ WellFormed(e.args[1])
     \/ /\ e.name \in {N_and, N_or}
        /\ Len(e.args) >= 1
        /\ \A k \in 1..Len(e.args) : WellFormed(e.args[k])

C9_CompilesOnlyWellFormed ==
  (pc = "filter" /\ env.set) => (out.t = "Done" /\ WellFormed(out.out))

\* an and of two calls compiled
C9_Witness ==
  /\ pc = "filter"
  /\ env.set
  /\ out.out.name = N_and
  /\ Len(out.out.args) = 2
  /\ out.out.args[1].name = N_fn
  /\ filter.f.fs[2] = AllFilter(<<FnFilter, TestFilter>>)

(***************************************************************************)
(* C10: the indices of to_delete increase; in the removal loop the offset  *)
(* is at most the index, the index less the offset is a position of the    *)
(* shortened vector and holds the child that had the index; the loop       *)
(* never panics and removes as many children as to_delete has indices.     *)
(***************************************************************************)
C10_RemovalIndicesInRange ==
  /\ \A n \in 1..Len(stack) : Increasing(stack[n].to_delete)
  /\ err.t = "Panic" =>
       err.msg \notin {"attempt to subtract with overflow", "removal index out of bounds"}
  /\ (stack # <<>> /\ Top.pc = "remove") =>
       /\ Top.offset = Top.k - 1
       /\ Len(Top.it.items) = Len(Top.orig) - Top.offset
       /\ Top.k <= Len(Top.to_delete) =>
            /\ Top.offset <= Top.to_delete[Top.k]
            /\ Top.to_delete[Top.k] - Top.offset < Len(Top.it.items)
            /\ Top.it.items[Top.to_delete[Top.k] - Top.offset + 1]
                 = Top.orig[Top.to_delete[Top.k] + 1]

\* the loop is about to remove its third child, which is not the next one
C10_Witness ==
  /\ stack # <<>>
  /\ Top.pc = "remove"
  /\ Top.k = 3
  /\ Len(Top.to_delete) >= 3
  /\ Top.to_delete[3] > 2
====
